---- MODULE Spec2Model ----
(***************************************************************************)
(* Terminal control and raw-input layer of terminal-toys, with the main()  *)
(* functions of the games that drive it.                                   *)
(*                                                                         *)
(* Two copies of the layer exist: terminal_toys/terminal_utils.py (the     *)
(* package copy, with WSL handling and cleanup()) and terminal_utils.py    *)
(* (the older top-level copy, used by the top-level paint.py).  The        *)
(* windows/ games carry their own msvcrt get_key helpers.                  *)
(*                                                                         *)
(* Bytes are modelled by name: "ETX" is 0x03, "ESC" 0x1b, "CR" 0x0d, "LF"  *)
(* 0x0a, "E0"/"NUL" the console's special-key prefixes; the others are     *)
(* the printable characters themselves.  Times are in milliseconds.        *)
(***************************************************************************)
EXTENDS Integers, Sequences, FiniteSets

VARIABLES
    game,          \* which main() runs (fixed for the run)
    platform,      \* host the process runs on (fixed for the run)
    tty0,          \* termios flags of stdin when the process started
    tty,           \* termios flags of stdin now
    nonblock,      \* O_NONBLOCK status flag of stdin
    old_settings,  \* KeyboardInput.old_settings: None or the saved flag set
    input_mode,    \* KeyboardInput.input_mode
    alt,           \* alternate screen buffer active
    hidden,        \* cursor hidden
    pc,            \* position of main(): [blk, i]
    exc,           \* exception propagating out of main(): "none" or its name
    stdin,         \* [pend, kern, buf]: not yet typed, readable on fd 0, in sys.stdin
    events,        \* keys get_key has returned so far (None results left out)
    last,          \* the latest get_key call: [t, wait, before, after, unit, res]
    restores,      \* number of tcsetattr calls that put old_settings back
    workers,       \* abandoned daemon threads still blocked in input()
    fault,         \* the call of the acquisition that raises in this run, or "none"
    typed,         \* every byte the user types in this run, in order
    ioerr,         \* exception the console/stdin calls raise in this run, or "none"
    env,           \* what the host answers: [system, procver, COLUMNS, LINES, stty, os]
    size,          \* result of the latest get_terminal_size(), or NoSize
    out,           \* what the frame renderer has written to stdout, in order
    kb2,           \* a second KeyboardInput of the same process, or NoHandle
    obj            \* the Snake or Tetris object main() plays (its `game`), or NoGame

\* variables of the environment probes, the renderer output, the second
\* handle and the game object
aux == <<env, size, out, kb2, obj>>

vars == <<game, platform, tty0, tty, nonblock, old_settings, input_mode, alt,
          hidden, pc, exc, stdin, events, last, restores, workers, fault, typed,
          ioerr, aux>>

-----------------------------------------------------------------------------
(* Bounds of the model *)

\* longest free-form input stream
MaxLen == 2
\* most abandoned input() workers tracked before polling stops
MaxWorkers == 2
\* most frames drawn in one run
MaxFrames == 3
\* width and height of the snake board, walls included
BoardWidth == 6
BoardHeight == 5
\* most move() calls of one snake game
MaxMoves == 4
\* width and height of the Tetris board as modelled (10 x 20 in tetris.py 46-47)
TetrisWidth == 4
TetrisHeight == 4
\* most pieces spawned in one Tetris game
MaxPieces == 3

-----------------------------------------------------------------------------
(* Platform detection: terminal_toys/terminal_utils.py 15-26 *)

Platforms == {"windows", "posix", "wsl"}

\* platform.system() == 'Windows'
IS_WINDOWS == platform = "windows"
\* 'microsoft' in /proc/version
IS_WSL == platform = "wsl"
\* a faulty variant of line 26: the flag is set on every host
IS_UNIX_everywhere == TRUE

IS_UNIX == ~IS_WINDOWS

-----------------------------------------------------------------------------
(* termios disciplines as sets of the local flags that matter here *)

Flags == {"ICANON", "ECHO", "ISIG"}
Cooked == Flags

\* tty.setcbreak: clears ECHO and ICANON
setcbreak(mode) == mode \ {"ICANON", "ECHO"}
\* tty.setraw: clears ECHO, ICANON, ISIG (and IEXTEN, input/output processing)
setraw(mode) == mode \ {"ICANON", "ECHO", "ISIG"}

-----------------------------------------------------------------------------
(* Timeouts, in milliseconds *)

\* select() lookahead after ESC, and the WSL default wait (0.1 s)
LookaheadMs == 100
\* thread.join default of the line-buffered fallback (1.0 s)
SimpleJoinMs == 1000
\* the per-frame timeout most games pass (0.01 s)
FrameMs == 10
Timeouts == {0, FrameMs}

-----------------------------------------------------------------------------
(* Byte alphabets and input streams *)

ArrowFinals == {"A", "B", "C", "D"}
PlainBytes == {"a", "q", "ETX", "CR", "LF", "ESC", "[", "O", "A"}
WinPrefix == {"E0", "NUL"}
\* "E9" is 0xE9, a key outside ASCII as the console delivers it
WinBytes == {"E0", "NUL", "H", "P", "K", "M", "a", "q", "ETX", "CR", "E9"}

SeqsUpTo(S, n) == UNION { [1..k -> S] : k \in 0..n }

\* every arrow encoding, alone and with a neighbour on either side
ArrowStreams ==
    { pre \o <<"ESC", i, f>> \o post :
        pre \in SeqsUpTo({"a"}, 1), post \in SeqsUpTo({"q"}, 1),
        i \in {"[", "O"}, f \in ArrowFinals }

\* an escape prefix that no arrow sequence continues, with a key behind it
GlitchStreams == {<<"ESC", "a", "q">>, <<"ESC", "[", "a", "q">>}

\* whole lines, as the line-buffered fallback reads them
LineStreams ==
    {<<"LF">>, <<"w", "LF">>, <<"S", "LF">>, <<"d", "LF">>, <<"a", "q", "LF">>,
     <<"q", "a", "LF">>}

PosixStreams ==
    SeqsUpTo(PlainBytes, MaxLen) \cup ArrowStreams \cup GlitchStreams \cup LineStreams

\* the console delivers a special key as prefix + code, never a bare prefix
RECURSIVE WinWellFormed(_)
WinWellFormed(s) ==
    IF s = <<>> THEN TRUE
    ELSE IF Head(s) \in WinPrefix
         THEN Len(s) >= 2 /\ WinWellFormed(Tail(Tail(s)))
         ELSE WinWellFormed(Tail(s))

WinStreams == { s \in SeqsUpTo(WinBytes, MaxLen) : WinWellFormed(s) }

-----------------------------------------------------------------------------
(* Standard input.  sys.stdin is a buffered text stream over descriptor 0:  *)
(* select() polls the descriptor, read(1) serves the stream buffer first    *)
(* and, when that is empty, drains what the descriptor holds into it.       *)

EmptyStdin(stream) == [pend |-> stream, kern |-> <<>>, buf |-> <<>>]

\* keystrokes reaching the descriptor while the process waits or works
Arrivals(s) ==
    { [pend |-> SubSeq(s.pend, n + 1, Len(s.pend)),
       kern |-> s.kern \o SubSeq(s.pend, 1, n),
       buf  |-> s.buf] : n \in 0..Len(s.pend) }

\* select.select([sys.stdin], [], [], t)[0] is non-empty
Ready(s) == s.kern # <<>>

\* a faulty variant of the buffered read: the newest buffered character is
\* handed out first
read1_newest_first(s) ==
    IF s.buf # <<>>
    THEN [ch |-> s.buf[Len(s.buf)],
          s |-> [s EXCEPT !.buf = SubSeq(s.buf, 1, Len(s.buf) - 1)]]
    ELSE IF s.kern # <<>>
         THEN [ch |-> Head(s.kern),
               s  |-> [s EXCEPT !.buf = Tail(s.kern), !.kern = <<>>]]
         ELSE [ch |-> "", s |-> s]

\* sys.stdin.read(1)
read1(s) ==
    IF s.buf # <<>>
    THEN [ch |-> Head(s.buf), s |-> [s EXCEPT !.buf = Tail(s.buf)]]
    ELSE IF s.kern # <<>>
         THEN [ch |-> Head(s.kern),
               s  |-> [s EXCEPT !.buf = Tail(s.kern), !.kern = <<>>]]
         ELSE [ch |-> "", s |-> s]

\* msvcrt.getch() with a keystroke pending
getch(s) == [ch |-> Head(s.kern), s |-> [s EXCEPT !.kern = Tail(s.kern)]]

\* msvcrt.getch(): blocks until a keystroke is there
GetchBlocking(s) == { getch(s1) : s1 \in { a \in Arrivals(s) : Ready(a) } }

-----------------------------------------------------------------------------
(* Results of a decoder: a key, "None", a raised KeyboardInterrupt, or the *)
(* exception a failing console/stdin call raised                           *)

None == "None"
RaisedKI == "KeyboardInterrupt"
RaisedErr == "OSError"
\* the console/stdin calls raise in this run
Failing == ioerr # "none"
Enter == "LF"
Arrows == {"UP", "DOWN", "LEFT", "RIGHT"}

Out(res, s, unit, w) == [res |-> res, s |-> s, unit |-> unit, w |-> w]

\* final byte of ESC [ x / ESC O x
ArrowOf(f) ==
    CASE f = "A" -> "UP" [] f = "B" -> "DOWN" [] f = "C" -> "RIGHT" [] f = "D" -> "LEFT"

\* second byte of a console special key
WinArrowOf(c) ==
    CASE c = "H" -> "UP" [] c = "P" -> "DOWN" [] c = "K" -> "LEFT"
      [] c = "M" -> "RIGHT" [] OTHER -> None

\* bytes.decode('utf-8', errors='ignore') of one byte: a byte above 0x7F is
\* no UTF-8 text on its own and is dropped
Decode(b) == IF b \in {"E0", "E9"} THEN "" ELSE b

-----------------------------------------------------------------------------
(* terminal_toys/terminal_utils.py: KeyboardInput._get_key_windows *)

\* msvcrt.kbhit() (line 266) stands outside the try of lines 267-282
_get_key_windows(s0, w) ==
    ( IF Failing THEN {Out(RaisedErr, s0, <<>>, w)}
      ELSE IF ~Ready(s0) THEN {Out(None, s0, <<>>, w)}
            ELSE LET k1 == getch(s0) IN
                 IF k1.ch \in WinPrefix
                 THEN { Out(WinArrowOf(k2.ch), k2.s, <<k1.ch, k2.ch>>, w) :
                          k2 \in GetchBlocking(k1.s) }
                 ELSE {Out(Decode(k1.ch), k1.s, <<k1.ch>>, w)} )

-----------------------------------------------------------------------------
(* terminal_toys/terminal_utils.py: KeyboardInput._get_key_unix_raw *)

\* lines 292-327, the IS_WSL branch, before the enclosing except
WslBranch(s0, w) ==
    ( IF Failing THEN {Out(RaisedErr, s0, <<>>, w)}
      ELSE IF ~Ready(s0) THEN {Out(None, s0, <<>>, w)}
            ELSE LET r1 == read1(s0) IN
              IF r1.ch = "" THEN {Out(None, r1.s, <<>>, w)}
              ELSE IF r1.ch = "ESC" THEN
                UNION { IF ~Ready(s2) THEN {Out("ESC", s2, <<"ESC">>, w)}
                        ELSE LET r2 == read1(s2) IN
                          IF r2.ch = "[" THEN
                            UNION { IF ~Ready(s3)
                                    THEN {Out("ESC", s3, <<"ESC", "[">>, w)}
                                    ELSE LET r3 == read1(s3) IN
                                      {Out(IF r3.ch \in ArrowFinals
                                           THEN ArrowOf(r3.ch) ELSE "ESC",
                                           r3.s, <<"ESC", "[", r3.ch>>, w)}
                                  : s3 \in Arrivals(r2.s) }
                          ELSE {Out("ESC", r2.s, <<"ESC", r2.ch>>, w)}
                      : s2 \in Arrivals(r1.s) }
              ELSE IF r1.ch = "ETX" THEN {Out(RaisedKI, r1.s, <<r1.ch>>, w)}
              ELSE IF r1.ch \in {"CR", "LF"} THEN {Out(Enter, r1.s, <<r1.ch>>, w)}
              ELSE {Out(r1.ch, r1.s, <<r1.ch>>, w)} )

\* lines 333-344: read while the descriptor stays readable
RECURSIVE StdReadLoop(_, _)
StdReadLoop(chars, s) ==
    LET r == read1(s) IN
    IF r.ch = "" THEN {[chars |-> chars, s |-> r.s]}
    ELSE UNION { IF Ready(s2)
                 THEN StdReadLoop(Append(chars, r.ch), s2)
                 ELSE {[chars |-> Append(chars, r.ch), s |-> s2]}
               : s2 \in Arrivals(r.s) }

\* lines 346-374: parse what was read
StdParse(chars) ==
    IF chars = <<>> THEN None
    ELSE IF Len(chars) = 1 THEN
        IF chars = <<"ETX">> THEN RaisedKI
        ELSE IF chars \in {<<"CR">>, <<"LF">>} THEN Enter
        ELSE chars[1]
    ELSE IF chars[1] = "ESC" /\ Len(chars) = 3 /\ chars[2] \in {"[", "O"}
            /\ chars[3] \in ArrowFinals
         THEN ArrowOf(chars[3])
         ELSE chars[1]

\* lines 329-374, the standard branch, before the enclosing except
StdBranch(s0, w) ==
    ( IF Failing THEN {Out(RaisedErr, s0, <<>>, w)}
      ELSE IF ~Ready(s0) THEN {Out(None, s0, <<>>, w)}
            ELSE { Out(StdParse(l.chars), l.s, l.chars, w) :
                     l \in StdReadLoop(<<>>, s0) } )

\* lines 290-378: the bare "except: return None" around both branches
Swallow(o) == IF o.res \in {RaisedKI, RaisedErr} THEN [o EXCEPT !.res = None] ELSE o

_get_key_unix_raw(s0, w) ==
    { Swallow(o) : o \in IF IS_WSL THEN WslBranch(s0, w) ELSE StdBranch(s0, w) }

-----------------------------------------------------------------------------
(* terminal_toys/terminal_utils.py: KeyboardInput._get_key_simple *)

\* what ends a line: with canonical input processing a CR is delivered as LF
Newlines == IF "ICANON" \in tty THEN {"CR", "LF"} ELSE {"LF"}
HasLine(k) == \E i \in 1..Len(k) : k[i] \in Newlines
FirstNl(k) ==
    CHOOSE i \in 1..Len(k) :
        k[i] \in Newlines /\ \A j \in 1..(i - 1) : k[j] \notin Newlines

\* str.lower() of one character
Lower(b) ==
    CASE b = "A" -> "a" [] b = "B" -> "b" [] b = "C" -> "c" [] b = "D" -> "d"
      [] b = "O" -> "o" [] b = "S" -> "s" [] OTHER -> b

\* lines 399-411: map the line the worker stored in result[0]
MapLine(line) ==
    IF line = <<>> THEN None
    ELSE LET inp == [i \in 1..Len(line) |-> Lower(line[i])] IN
         CASE inp = <<"w">> -> "UP" [] inp = <<"s">> -> "DOWN"
           [] inp = <<"a">> -> "LEFT" [] inp = <<"d">> -> "RIGHT"
           [] OTHER -> line[1]

\* lines 394-397: the worker calls input(), the caller joins it with a bound.
\* Every worker abandoned by an earlier call is still blocked in input() on
\* the same stream, and any one of the blocked readers gets the next line.
RECURSIVE SimpleWait(_, _)
SimpleWait(s, w) ==
    IF HasLine(s.kern)
    THEN LET i    == FirstNl(s.kern)
             line == SubSeq(s.kern, 1, i - 1)
             rest == [s EXCEPT !.kern = SubSeq(s.kern, i + 1, Len(s.kern))]
         IN  {Out(MapLine(line), rest, SubSeq(s.kern, 1, i), w)}
             \cup (IF w > 0 THEN SimpleWait(rest, w - 1) ELSE {})
    ELSE IF w < MaxWorkers THEN {Out(None, s, <<>>, w + 1)} ELSE {}

\* lines 383-413: whatever raises, in the worker or around it, is swallowed
_get_key_simple(s0, w) ==
    IF Failing THEN {Out(None, s0, <<>>, w)} ELSE SimpleWait(s0, w)

-----------------------------------------------------------------------------
(* terminal_toys/terminal_utils.py: KeyboardInput.get_key, lines 244-262 *)

\* lines 257-262: KeyboardInterrupt is re-raised, any other exception becomes None
Resolve(o) == IF o.res = RaisedErr THEN [o EXCEPT !.res = None] ELSE o

\* a faulty variant of get_key: no handler around the dispatch
get_key_unguarded(s0, w) ==
    IF input_mode = "windows" THEN _get_key_windows(s0, w)
    ELSE IF input_mode = "raw" THEN _get_key_unix_raw(s0, w)
    ELSE _get_key_simple(s0, w)

get_key(s0, w) ==
    { Resolve(o) :
        o \in IF input_mode = "windows" THEN _get_key_windows(s0, w)
              ELSE IF input_mode = "raw" THEN _get_key_unix_raw(s0, w)
              ELSE _get_key_simple(s0, w) }

-----------------------------------------------------------------------------
(* terminal_utils.py, the older copy: KeyboardInput.get_key and its decoders *)

\* lines 84-103
_get_key_windows_old(s0, w) ==
    ( IF Failing THEN {Out(RaisedErr, s0, <<>>, w)}
      ELSE IF ~Ready(s0) THEN {Out(None, s0, <<>>, w)}
            ELSE LET k1 == getch(s0) IN
                 IF k1.ch \in WinPrefix
                 THEN { Out(WinArrowOf(k2.ch), k2.s, <<k1.ch, k2.ch>>, w) :
                          k2 \in GetchBlocking(k1.s) }
                 ELSE {Out(Decode(k1.ch), k1.s, <<k1.ch>>, w)} )

\* lines 105-128
_get_key_unix(s0, w) ==
    ( IF Failing THEN {Out(RaisedErr, s0, <<>>, w)}
      ELSE IF ~Ready(s0) THEN {Out(None, s0, <<>>, w)}
            ELSE LET r1 == read1(s0) IN
              IF r1.ch = "ESC" THEN
                UNION { IF ~Ready(s2) THEN {Out("ESC", s2, <<"ESC">>, w)}
                        ELSE LET r2 == read1(s2) IN
                          IF r2.ch = "[" THEN
                            UNION { IF ~Ready(s3)
                                    THEN {Out("ESC", s3, <<"ESC", "[">>, w)}
                                    ELSE LET r3 == read1(s3) IN
                                      {Out(IF r3.ch \in ArrowFinals
                                           THEN ArrowOf(r3.ch) ELSE "ESC",
                                           r3.s, <<"ESC", "[", r3.ch>>, w)}
                                  : s3 \in Arrivals(r2.s) }
                          ELSE {Out("ESC", r2.s, <<"ESC", r2.ch>>, w)}
                      : s2 \in Arrivals(r1.s) }
              ELSE {Out(r1.ch, r1.s, <<r1.ch>>, w)} )

\* lines 73-82
get_key_old(s0, w) ==
    IF IS_WINDOWS THEN _get_key_windows_old(s0, w) ELSE _get_key_unix(s0, w)

-----------------------------------------------------------------------------
(* get_key helpers of the windows/ games *)

\* terminal_toys/windows/clock.py 179-184: kbhit, getch, decode
get_key_clock(s0, w) ==
    ( IF Failing THEN {Out(RaisedErr, s0, <<>>, w)}
      ELSE IF ~Ready(s0) THEN {Out(None, s0, <<>>, w)}
            ELSE LET k1 == getch(s0) IN {Out(Decode(k1.ch), k1.s, <<k1.ch>>, w)} )

\* terminal_toys/windows/tictactoe.py 194-209: getch without kbhit.
\* The set is empty while no keystroke is there: the call does not return.
get_key_tictactoe(s0, w) ==
    IF Failing THEN {Out(RaisedErr, s0, <<>>, w)}
    ELSE IF ~Ready(s0) THEN {}
    ELSE LET k1 == getch(s0) IN
         IF k1.ch \in WinPrefix
         THEN { Out(WinArrowOf(k2.ch), k2.s, <<k1.ch, k2.ch>>, w) :
                  k2 \in GetchBlocking(k1.s) }
         ELSE {Out(Decode(k1.ch), k1.s, <<k1.ch>>, w)}

-----------------------------------------------------------------------------
(* Raw-mode controller, package copy: terminal_toys/terminal_utils.py *)

\* "tcsetattr" is the restore call of cleanup() / __del__, the others are
\* calls of __init__
Faults == {"none", "tcgetattr", "setraw", "fcntl", "tcsetattr"}

\* values of old_settings: None, or what tcgetattr returned
NoSettings == [saved |-> FALSE, mode |-> {}]
Snapshot(mode) == [saved |-> TRUE, mode |-> mode]

\* a faulty variant of __init__: tty.setraw on every POSIX class
KeyboardInput_init_setraw_everywhere ==
    IF IS_WINDOWS
    THEN [old_settings |-> NoSettings, input_mode |-> "windows",
          tty |-> tty, nonblock |-> nonblock]
    ELSE IF fault = "tcgetattr"
    THEN [old_settings |-> NoSettings, input_mode |-> "simple",
          tty |-> tty, nonblock |-> nonblock]
    ELSE IF fault = "setraw"
    THEN [old_settings |-> Snapshot(tty), input_mode |-> "simple",
          tty |-> tty, nonblock |-> nonblock]
    ELSE IF fault = "fcntl" /\ ~IS_WSL
    THEN [old_settings |-> Snapshot(tty), input_mode |-> "simple",
          tty |-> setraw(tty), nonblock |-> nonblock]
    ELSE [old_settings |-> Snapshot(tty), input_mode |-> "raw",
          tty |-> setraw(tty),
          nonblock |-> IF IS_WSL THEN nonblock ELSE TRUE]

\* a faulty variant of __init__: the snapshot is read after the mode switch
KeyboardInput_init_late_snapshot ==
    IF IS_WINDOWS
    THEN [old_settings |-> NoSettings, input_mode |-> "windows",
          tty |-> tty, nonblock |-> nonblock]
    ELSE IF fault = "tcgetattr"
    THEN [old_settings |-> NoSettings, input_mode |-> "simple",
          tty |-> tty, nonblock |-> nonblock]
    ELSE IF fault = "setraw"
    THEN [old_settings |-> Snapshot(tty), input_mode |-> "simple",
          tty |-> tty, nonblock |-> nonblock]
    ELSE IF fault = "fcntl" /\ ~IS_WSL
    THEN [old_settings |-> Snapshot(setraw(tty)), input_mode |-> "simple",
          tty |-> setraw(tty), nonblock |-> nonblock]
    ELSE [old_settings |-> Snapshot(IF IS_WSL THEN setcbreak(tty) ELSE setraw(tty)),
          input_mode |-> "raw",
          tty |-> IF IS_WSL THEN setcbreak(tty) ELSE setraw(tty),
          nonblock |-> IF IS_WSL THEN nonblock ELSE TRUE]

\* KeyboardInput.__init__, lines 189-220: [old_settings, input_mode, tty, nonblock]
\* after construction.  Any exception inside the try selects 'simple'.
KeyboardInput_init ==
    IF IS_WINDOWS
    THEN [old_settings |-> NoSettings, input_mode |-> "windows",
          tty |-> tty, nonblock |-> nonblock]
    ELSE IF fault = "tcgetattr"
    THEN [old_settings |-> NoSettings, input_mode |-> "simple",
          tty |-> tty, nonblock |-> nonblock]
    ELSE IF fault = "setraw"
    THEN [old_settings |-> Snapshot(tty), input_mode |-> "simple",
          tty |-> tty, nonblock |-> nonblock]
    ELSE IF fault = "fcntl" /\ ~IS_WSL
    THEN [old_settings |-> Snapshot(tty), input_mode |-> "simple",
          tty |-> setraw(tty), nonblock |-> nonblock]
    ELSE [old_settings |-> Snapshot(tty), input_mode |-> "raw",
          tty |-> IF IS_WSL THEN setcbreak(tty) ELSE setraw(tty),
          nonblock |-> IF IS_WSL THEN nonblock ELSE TRUE]

\* outcomes of a termios.tcsetattr call that restores: TRUE when it succeeds
RestoreOutcomes == IF fault = "tcsetattr" THEN BOOLEAN ELSE {TRUE}

\* a faulty variant of cleanup: the handle is marked released before the
\* restore call is made
cleanup_on_release_first(saved, ok) ==
    IF saved.saved
    THEN [old_settings |-> NoSettings, tty |-> IF ok THEN saved.mode ELSE tty,
          nonblock |-> IF IS_WSL THEN nonblock ELSE FALSE,
          restored |-> IF ok THEN 1 ELSE 0]
    ELSE [old_settings |-> saved, tty |-> tty,
          nonblock |-> nonblock, restored |-> 0]

\* KeyboardInput.cleanup, lines 226-242 (also __del__, 222-224):
\* [old_settings, tty, nonblock, restored]
\* for the handle whose old_settings attribute is saved; ok is the outcome
\* of tcsetattr (239), which comes after the fcntl calls (231-236) and
\* before old_settings is set to None (240), all inside try / except: pass
cleanup_on(saved, ok) ==
    IF saved.saved
    THEN IF ok
         THEN [old_settings |-> NoSettings, tty |-> saved.mode,
               nonblock |-> IF IS_WSL THEN nonblock ELSE FALSE, restored |-> 1]
         ELSE [old_settings |-> saved, tty |-> tty,
               nonblock |-> IF IS_WSL THEN nonblock ELSE FALSE, restored |-> 0]
    ELSE [old_settings |-> saved, tty |-> tty,
          nonblock |-> nonblock, restored |-> 0]

\* for the handle main() holds
cleanup(ok) == cleanup_on(old_settings, ok)

-----------------------------------------------------------------------------
(* Raw-mode controller, older copy: terminal_utils.py *)

\* KeyboardInput.__init__, lines 64-67: nothing is caught, [.., raised]
KeyboardInput_init_old ==
    IF IS_WINDOWS
    THEN [old_settings |-> NoSettings, tty |-> tty, raised |-> FALSE]
    ELSE IF fault = "tcgetattr"
    THEN [old_settings |-> NoSettings, tty |-> tty, raised |-> TRUE]
    ELSE IF fault = "setraw"
    THEN [old_settings |-> Snapshot(tty), tty |-> tty, raised |-> TRUE]
    ELSE [old_settings |-> Snapshot(tty), tty |-> setraw(tty), raised |-> FALSE]

\* KeyboardInput.__del__, lines 69-71: NoSettings stands for the attribute
\* never having been set; ok is the outcome of tcsetattr
del_old(ok) ==
    IF ~IS_WINDOWS /\ old_settings.saved /\ ok
    THEN [old_settings |-> old_settings, tty |-> old_settings.mode, restored |-> 1]
    ELSE [old_settings |-> old_settings, tty |-> tty, restored |-> 0]

-----------------------------------------------------------------------------
(* Frame renderer: terminal_toys/terminal_utils.py 119-133, 172-184 *)

hide_cursor == TRUE
show_cursor == FALSE
\* value of alt after enable_alternate_screen()
enable_alternate_screen == IF ~IS_WINDOWS /\ ~IS_WSL THEN TRUE ELSE alt
\* a faulty variant of disable_alternate_screen(): the guard is inverted
disable_alternate_screen_inverted == IF IS_WINDOWS \/ IS_WSL THEN FALSE ELSE alt
\* value of alt after disable_alternate_screen()
disable_alternate_screen == IF ~IS_WINDOWS /\ ~IS_WSL THEN FALSE ELSE alt

-----------------------------------------------------------------------------
(* The main() functions *)

\* snake: terminal_toys/snake.py (tetris, clock, life, 2048, matrix_rain, paint,
\*        tictactoe, fire and bouncing_ball of the package have the same shape)
\* pipes: terminal_toys/pipes.py;  paint_old: paint.py over the older copy
\* win_clock, win_tictactoe: terminal_toys/windows/
KbGames == {"snake", "pipes"}
OldGames == {"paint_old"}
WinGames == {"win_clock", "win_tictactoe"}
Games == KbGames \cup OldGames \cup WinGames

PlatformsOf(g) == IF g \in WinGames THEN {"windows"} ELSE Platforms

\* statements of the try body before the loop that change modelled state
TrySuite(g) ==
    CASE g = "snake" -> <<"enable_alternate_screen", "hide_cursor">>
      [] g \in {"pipes", "paint_old", "win_clock"} -> <<"hide_cursor">>
      [] OTHER -> <<>>

\* statements of the finally suite, in order
FinallySuite(g) ==
    CASE g = "snake" -> <<"cleanup", "show_cursor", "disable_alternate_screen">>
      [] g \in {"pipes", "paint_old", "win_clock"} -> <<"show_cursor">>
      [] OTHER -> <<>>

\* main() has "except KeyboardInterrupt: pass"
CatchesInterrupt(g) == g \in {"snake", "pipes", "paint_old"}

\* the decoder main() polls
Decoder(g, s, w) ==
    CASE g \in KbGames -> get_key(s, w)
      [] g = "paint_old" -> get_key_old(s, w)
      [] g = "win_clock" -> get_key_clock(s, w)
      [] g = "win_tictactoe" -> get_key_tictactoe(s, w)

\* the bound of the first wait of a get_key(t) call
WaitMs(g, t) ==
    IF g \in KbGames
    THEN (IF input_mode = "raw" THEN (IF IS_WSL /\ t = 0 THEN LookaheadMs ELSE t)
          ELSE IF input_mode = "windows" THEN 0
          ELSE IF t > 0 THEN t ELSE SimpleJoinMs)
    ELSE IF g = "paint_old" /\ ~IS_WINDOWS THEN t ELSE 0

At(blk, i) == [blk |-> blk, i |-> i]
\* position after statement i-1 of the try body
AfterTry(g, i) == IF i > Len(TrySuite(g)) THEN At("loop", 0) ELSE At("try", i)

-----------------------------------------------------------------------------
(* Initial states *)

NoCall == [t |-> 0, wait |-> 0, before |-> EmptyStdin(<<>>),
           after |-> EmptyStdin(<<>>), unit |-> <<>>, res |-> "nocall"]

\* nothing probed, nothing drawn, no second handle
NoEnv == [system |-> "Linux", procver |-> "linux", COLUMNS |-> "unset",
          LINES |-> "unset", stty |-> "fails", os |-> "fails"]
NoSize == <<>>
NoHandle == [live |-> FALSE, old_settings |-> NoSettings, input_mode |-> "normal"]
NoGame == [kind |-> "none"]

InitAux ==
    /\ env = NoEnv
    /\ size = NoSize
    /\ out = <<>>
    /\ kb2 = NoHandle
    /\ obj = NoGame

InitCommon ==
    /\ stdin = EmptyStdin(typed)
    /\ tty = tty0
    /\ old_settings = NoSettings
    /\ input_mode = "normal"
    /\ alt = FALSE
    /\ hidden = FALSE
    /\ pc = IF game \in WinGames THEN AfterTry(game, 1) ELSE At("start", 0)
    /\ exc = "none"
    /\ events = <<>>
    /\ last = NoCall
    /\ restores = 0
    /\ workers = 0

\* input of the runs that exercise start-up and shutdown
LifeStreams == {<<>>, <<"q">>, <<"ETX">>, <<"a", "LF">>, <<"ESC", "[", "A">>}

\* disciplines a process may inherit: cooked, cooked without signals, cbreak, raw
StartModes == {Cooked, Cooked \ {"ISIG"}, setcbreak(Cooked), setraw(Cooked)}

\* every game on every platform it runs on, any inherited discipline,
\* any failing call of the acquisition
Init ==
    /\ game \in Games
    /\ platform \in PlatformsOf(game)
    /\ tty0 \in StartModes
    /\ nonblock \in BOOLEAN
    /\ fault \in Faults
    /\ typed \in LifeStreams
    /\ ioerr = "none"
    /\ InitAux
    /\ InitCommon

\* one game per decoder, a cooked terminal, every input stream
InitKeys ==
    /\ game \in {"snake", "paint_old", "win_clock", "win_tictactoe"}
    /\ platform \in PlatformsOf(game)
    /\ game = "paint_old" => platform # "wsl"
    /\ tty0 = Cooked
    /\ nonblock = FALSE
    /\ fault \in {"none", "tcgetattr"}
    /\ typed \in IF platform = "windows" THEN WinStreams ELSE PosixStreams
    /\ ioerr \in {"none", RaisedErr}
    /\ InitAux
    /\ InitCommon

-----------------------------------------------------------------------------
(* Steps of main() *)

fixed == <<game, platform, tty0, fault, typed, ioerr, aux>>

\* kb = KeyboardInput()
Construct ==
    /\ pc.blk = "start"
    /\ IF game \in KbGames
       THEN LET r == KeyboardInput_init IN
            /\ old_settings' = r.old_settings
            /\ input_mode' = r.input_mode
            /\ tty' = r.tty
            /\ nonblock' = r.nonblock
            /\ pc' = AfterTry(game, 1)
            /\ exc' = exc
       ELSE LET r == KeyboardInput_init_old IN
            /\ old_settings' = r.old_settings
            /\ tty' = r.tty
            /\ pc' = IF r.raised THEN At("unwind", 0) ELSE AfterTry(game, 1)
            /\ exc' = IF r.raised THEN "Exception" ELSE exc
            /\ UNCHANGED <<input_mode, nonblock>>
    /\ UNCHANGED <<fixed, alt, hidden, stdin, events, last, restores, workers>>

\* enable_alternate_screen() / hide_cursor() at the head of the try body
TryStep ==
    /\ pc.blk = "try"
    /\ LET op == TrySuite(game)[pc.i] IN
       /\ alt' = IF op = "enable_alternate_screen" THEN enable_alternate_screen ELSE alt
       /\ hidden' = IF op = "hide_cursor" THEN hide_cursor ELSE hidden
    /\ pc' = AfterTry(game, pc.i + 1)
    /\ UNCHANGED <<fixed, tty, nonblock, old_settings, input_mode, exc, stdin,
                   events, last, restores, workers>>

\* where main() goes once a poll has produced res
AfterPoll(res) ==
    IF res \in {RaisedKI, RaisedErr, "q"} THEN At("finally", 1) ELSE At("loop", 0)

Polled(t, o) ==
    /\ stdin' = o.s
    /\ workers' = o.w
    /\ last' = [t |-> t, wait |-> WaitMs(game, t), before |-> stdin,
                after |-> o.s, unit |-> o.unit, res |-> o.res]
    /\ events' = IF o.res \in {None, RaisedKI, RaisedErr}
                 THEN events ELSE Append(events, o.res)
    /\ exc' = IF o.res = RaisedKI /\ ~CatchesInterrupt(game) THEN "KeyboardInterrupt"
              ELSE IF o.res = RaisedErr THEN RaisedErr
              ELSE exc

\* the user types: the next bytes reach the descriptor
Arrive ==
    /\ pc.blk \in {"loop", "getch"}
    /\ stdin' \in Arrivals(stdin) \ {stdin}
    /\ UNCHANGED <<fixed, tty, nonblock, old_settings, input_mode, alt, hidden, pc,
                   exc, events, last, restores, workers>>

\* one iteration of the loop: key = get_key(t), then the quit test
\* (for windows/tictactoe.py also the return of a getch() that was waiting)
PollKey ==
    /\ pc.blk \in {"loop", "getch"}
    /\ pc.blk = "getch" => Ready(stdin)
    /\ \E t \in Timeouts : \E o \in Decoder(game, stdin, workers) :
          /\ Polled(t, o)
          /\ pc' = AfterPoll(o.res)
    /\ UNCHANGED <<fixed, tty, nonblock, old_settings, input_mode, alt, hidden, restores>>

\* the poll of windows/tictactoe.py with no keystroke there: main() sits in getch()
PollBlocked ==
    /\ pc.blk = "loop"
    /\ game = "win_tictactoe"
    /\ ~Failing
    /\ ~Ready(stdin)
    /\ pc' = At("getch", 0)
    /\ UNCHANGED <<fixed, tty, nonblock, old_settings, input_mode, alt, hidden, exc,
                   stdin, events, last, restores, workers>>

\* snake.py 189, 215-218: the loop ends on game_over, then one more kb.get_key()
GameOver ==
    /\ pc.blk = "loop"
    /\ game = "snake"
    /\ \E o \in Decoder(game, stdin, workers) :
          /\ Polled(0, o)
          /\ pc' = At("finally", 1)
    /\ UNCHANGED <<fixed, tty, nonblock, old_settings, input_mode, alt, hidden, restores>>

\* some statement of the try body raises an exception main() does not catch
RaiseError ==
    /\ pc.blk \in {"try", "loop"}
    /\ exc' = "Exception"
    /\ pc' = At("finally", 1)
    /\ UNCHANGED <<fixed, tty, nonblock, old_settings, input_mode, alt, hidden,
                   stdin, events, last, restores, workers>>

\* SIGINT raises KeyboardInterrupt at some statement of the try body
OsInterrupt ==
    /\ pc.blk \in {"try", "loop"}
    /\ exc' = IF CatchesInterrupt(game) THEN exc ELSE "KeyboardInterrupt"
    /\ pc' = At("finally", 1)
    /\ UNCHANGED <<fixed, tty, nonblock, old_settings, input_mode, alt, hidden,
                   stdin, events, last, restores, workers>>

\* the next statement of the finally suite
FinallyStep ==
    /\ pc.blk = "finally"
    /\ pc.i <= Len(FinallySuite(game))
    /\ \E ok \in RestoreOutcomes :
       LET op == FinallySuite(game)[pc.i]
           r  == cleanup(ok) IN
       /\ old_settings' = IF op = "cleanup" THEN r.old_settings ELSE old_settings
       /\ tty' = IF op = "cleanup" THEN r.tty ELSE tty
       /\ nonblock' = IF op = "cleanup" THEN r.nonblock ELSE nonblock
       /\ restores' = IF op = "cleanup" THEN restores + r.restored ELSE restores
       /\ hidden' = IF op = "show_cursor" THEN show_cursor ELSE hidden
       /\ alt' = IF op = "disable_alternate_screen"
                 THEN disable_alternate_screen ELSE alt
    /\ pc' = At("finally", pc.i + 1)
    /\ UNCHANGED <<fixed, input_mode, exc, stdin, events, last, workers>>

\* main() is left (by return or by the exception in exc) and the process ends.
\* The KeyboardInput it held is released only through __del__ from here on;
\* the language does not promise that __del__ runs for an object that is
\* still alive when the interpreter exits (an uncaught exception keeps the
\* frame, and kb with it, alive in the traceback), so it runs or it does not.
ExitMain ==
    /\ \/ pc.blk = "finally" /\ pc.i > Len(FinallySuite(game))
       \/ pc.blk = "unwind"
    /\ \E finalized \in BOOLEAN : \E ok \in RestoreOutcomes :
         IF finalized /\ game \in KbGames
         THEN LET r == cleanup(ok) IN
              /\ old_settings' = r.old_settings
              /\ tty' = r.tty
              /\ nonblock' = r.nonblock
              /\ restores' = restores + r.restored
         ELSE IF finalized /\ game \in OldGames
         THEN LET r == del_old(ok) IN
              /\ old_settings' = r.old_settings
              /\ tty' = r.tty
              /\ restores' = restores + r.restored
              /\ nonblock' = nonblock
         ELSE UNCHANGED <<old_settings, tty, nonblock, restores>>
    /\ pc' = At("exited", 0)
    /\ UNCHANGED <<fixed, input_mode, alt, hidden, exc, stdin, events, last, workers>>

Next ==
    \/ Construct
    \/ TryStep
    \/ Arrive
    \/ PollKey
    \/ PollBlocked
    \/ GameOver
    \/ RaiseError
    \/ OsInterrupt
    \/ FinallyStep
    \/ ExitMain

Spec == Init /\ [][Next]_vars

NextKeys ==
    \/ Construct
    \/ TryStep
    \/ Arrive
    \/ PollKey
    \/ PollBlocked
    \/ FinallyStep
    \/ ExitMain

SpecKeys == InitKeys /\ [][NextKeys]_vars

-----------------------------------------------------------------------------
(* A client of the package KeyboardInput that holds up to two handles *)

\* the first handle: h1 = KeyboardInput()
ConstructFirst ==
    /\ pc.blk = "start"
    /\ LET r == KeyboardInput_init IN
       /\ old_settings' = r.old_settings
       /\ input_mode' = r.input_mode
       /\ tty' = r.tty
       /\ nonblock' = r.nonblock
    /\ pc' = At("held", 0)
    /\ UNCHANGED <<game, platform, tty0, fault, typed, ioerr, obj, env, size, out, kb2,
                   alt, hidden, exc, stdin, events, last, restores, workers>>

\* a second handle while the first object exists: h2 = KeyboardInput().
\* __init__ (189-220) has no record of other handles: it runs as for the first.
ConstructSecond ==
    /\ pc.blk = "held"
    /\ ~kb2.live
    /\ LET r == KeyboardInput_init IN
       /\ kb2' = [live |-> TRUE, old_settings |-> r.old_settings,
                  input_mode |-> r.input_mode]
       /\ tty' = r.tty
       /\ nonblock' = r.nonblock
    /\ UNCHANGED <<game, platform, tty0, fault, typed, ioerr, obj, env, size, out,
                   old_settings, input_mode, pc,
                   alt, hidden, exc, stdin, events, last, restores, workers>>

\* h1.cleanup()
CleanupFirst ==
    /\ pc.blk = "held"
    /\ \E ok \in RestoreOutcomes : LET r == cleanup(ok) IN
       /\ old_settings' = r.old_settings
       /\ tty' = r.tty
       /\ nonblock' = r.nonblock
       /\ restores' = restores + r.restored
    /\ restores < 2
    /\ UNCHANGED <<game, platform, tty0, fault, typed, ioerr, obj, env, size, out, kb2,
                   input_mode, pc, alt, hidden, exc, stdin, events, last, workers>>

\* h2.cleanup(), after which h2 is dropped
CleanupSecond ==
    /\ kb2.live
    /\ \E ok \in RestoreOutcomes : LET r == cleanup_on(kb2.old_settings, ok) IN
       /\ kb2' = NoHandle
       /\ tty' = r.tty
       /\ nonblock' = r.nonblock
       /\ restores' = restores + r.restored
    /\ restores < 2
    /\ UNCHANGED <<game, platform, tty0, fault, typed, ioerr, obj, env, size, out,
                   old_settings, input_mode, pc,
                   alt, hidden, exc, stdin, events, last, workers>>

InitHandles ==
    /\ game = "snake"
    /\ platform \in Platforms
    /\ tty0 \in StartModes
    /\ nonblock \in BOOLEAN
    /\ fault \in Faults
    /\ typed = <<>>
    /\ ioerr = "none"
    /\ InitAux
    /\ InitCommon

NextHandles ==
    \/ ConstructFirst
    \/ ConstructSecond
    \/ CleanupFirst
    \/ CleanupSecond

SpecHandles == InitHandles /\ [][NextHandles]_vars

-----------------------------------------------------------------------------
(* Frame drawing: terminal_toys/terminal_utils.py 50-77 and 418-430 *)

\* what a frame's content can be
Frames == {"f1", "f2"}
IsFrame(tok) == tok \in Frames

\* clear_screen(), lines 50-67: what it writes
clear_screen ==
    IF IS_WINDOWS THEN <<"cls">>
    ELSE IF IS_WSL THEN <<"ESC[H", "ESC[J", "ESC[2J", "ESC[H">>
    ELSE <<"ESC[2J", "ESC[H">>

\* move_cursor(1, 1), lines 69-76
move_cursor == IF IS_WSL THEN clear_screen ELSE <<"ESC[1;1H">>

\* a faulty variant of render_frame_wsl: the screen is cleared for the first
\* frame only
render_frame_wsl_once(lines) ==
    IF IS_WSL /\ out = <<>> THEN <<"ESC[H", "ESC[J", lines>> ELSE <<lines>>

\* render_frame_wsl(lines), lines 418-430: what it writes
render_frame_wsl(lines) ==
    IF IS_WSL THEN <<"ESC[H", "ESC[J", lines>> ELSE <<lines>>

\* the draw methods: Snake.draw (snake.py 158-165, as life, tetris, paint,
\* matrix_rain), Fire.draw (fire.py 91-93, as bouncing_ball) and
\* TicTacToe.draw (tictactoe.py 194-200, as clock, game_2048)
DrawStyles == {"snake", "fire", "tictactoe"}
draw(style, lines) ==
    IF style = "fire" THEN move_cursor \o <<lines>>
    ELSE IF IS_WSL THEN render_frame_wsl(lines)
    ELSE IF style = "snake" THEN move_cursor \o <<lines>>
    ELSE clear_screen \o <<lines>>

FramesDrawn == Cardinality({i \in 1..Len(out) : IsFrame(out[i])})

\* one frame is drawn
Draw ==
    /\ FramesDrawn < MaxFrames
    /\ \E f \in Frames : out' = out \o draw(game, f)
    /\ UNCHANGED <<game, platform, tty0, fault, typed, ioerr, obj, env, size, kb2,
                   tty, nonblock, old_settings, input_mode, pc,
                   alt, hidden, exc, stdin, events, last, restores, workers>>

InitDraw ==
    /\ game \in DrawStyles
    /\ platform \in Platforms
    /\ tty0 = Cooked
    /\ nonblock = FALSE
    /\ fault = "none"
    /\ typed = <<>>
    /\ ioerr = "none"
    /\ InitAux
    /\ InitCommon

NextDraw == Draw

SpecDraw == InitDraw /\ [][NextDraw]_vars

-----------------------------------------------------------------------------
(* Environment probes: terminal_toys/terminal_utils.py 15-26, 90-117, 135-170 *)
(* and terminal_utils.py 53-59                                              *)

\* platform.system(): '' when it cannot be determined
Systems == {"Windows", "Linux", ""}
\* /proc/version: its text, or "unreadable" when open() raises
ProcVersions == {"Linux version 5.15 Microsoft", "Linux version 6.1", "unreadable"}

\* str.lower() on the texts above
lower(text) ==
    CASE text = "Linux version 5.15 Microsoft" -> "linux version 5.15 microsoft"
      [] text = "Linux version 6.1" -> "linux version 6.1"
      [] OTHER -> text
\* 'microsoft' in text
has_microsoft(text) == text \in {"linux version 5.15 microsoft"}

\* is_wsl(), lines 15-21: any exception gives False
is_wsl(procver) ==
    IF procver = "unreadable" THEN FALSE ELSE has_microsoft(lower(procver))

\* lines 24-26: the class the module settles on at import
Classify(system, procver) ==
    IF system = "Windows" THEN "windows"
    ELSE IF is_wsl(procver) THEN "wsl"
    ELSE "posix"

\* numbers that occur as sizes, and their decimal text
Nums == {-1, 0, 5, 10, 24, 30, 80, 100, 200, 500}
str(n) ==
    CASE n = -1 -> "-1" [] n = 0 -> "0" [] n = 5 -> "5" [] n = 10 -> "10"
      [] n = 24 -> "24" [] n = 30 -> "30" [] n = 80 -> "80" [] n = 100 -> "100"
      [] n = 200 -> "200" [] n = 500 -> "500"
\* int(text) succeeds
IsNumeric(text) == \E n \in Nums : str(n) = text
int(text) == CHOOSE n \in Nums : str(n) = text

\* the clamp of lines 166-167 and the default of line 170
MinCols == 40
MaxCols == 120
MinRows == 20
MaxRows == 40
DefaultCols == 80
DefaultRows == 24

min(a, b) == IF a < b THEN a ELSE b
max(a, b) == IF a > b THEN a ELSE b

\* os.get_terminal_size(): raises, or a pair
OsAnswers ==
    {[ok |-> FALSE, columns |-> 0, lines |-> 0]} \cup
    {[ok |-> TRUE, columns |-> c[1], lines |-> c[2]] :
        c \in {<<0, 0>>, <<10, 5>>, <<100, 30>>, <<500, 200>>}}
\* stty size: exit status and the two numbers it prints (rows, then columns)
SttyAnswers ==
    {[rc |-> 1, lines |-> "", cols |-> ""]} \cup
    {[rc |-> 0, lines |-> c[2], cols |-> c[1]] :
        c \in {<<"0", "0">>, <<"10", "5">>, <<"100", "30">>, <<"500", "200">>}}
\* COLUMNS and LINES in os.environ
EnvPairs ==
    {<<"unset", "unset">>, <<"100", "unset">>, <<"abc", "24">>, <<"0", "0">>,
     <<"-1", "-1">>, <<"10", "5">>, <<"100", "30">>, <<"500", "200">>}

\* shutil.get_terminal_size() of the standard library, as the two copies call
\* it (fallback (80, 24)): environment first, then the OS query
shutil_get_terminal_size(e) ==
    LET columns == IF IsNumeric(e.COLUMNS) THEN int(e.COLUMNS) ELSE 0
        lines   == IF IsNumeric(e.LINES) THEN int(e.LINES) ELSE 0
        sz      == IF e.os.ok THEN <<e.os.columns, e.os.lines>> ELSE <<80, 24>>
    IN  IF columns <= 0 \/ lines <= 0
        THEN << IF columns <= 0 THEN (IF sz[1] # 0 THEN sz[1] ELSE 80) ELSE columns,
                IF lines <= 0 THEN (IF sz[2] # 0 THEN sz[2] ELSE 24) ELSE lines >>
        ELSE <<columns, lines>>

\* get_terminal_size(), package copy, lines 135-170: <<cols, lines>>
get_terminal_size(e) ==
    LET std == LET sz == shutil_get_terminal_size(e) IN
               << max(MinCols, min(sz[1], MaxCols)), max(MinRows, min(sz[2], MaxRows)) >>
        viaStty == IF e.stty.rc = 0 /\ IsNumeric(e.stty.lines) /\ IsNumeric(e.stty.cols)
                   THEN <<int(e.stty.cols), int(e.stty.lines)>>
                   ELSE std
    IN  IF IS_WSL
        THEN IF /\ e.COLUMNS # "unset" /\ e.LINES # "unset"
                /\ IsNumeric(e.COLUMNS) /\ IsNumeric(e.LINES)
                /\ int(e.COLUMNS) > 0 /\ int(e.LINES) > 0
             THEN <<int(e.COLUMNS), int(e.LINES)>>
             ELSE viaStty
        ELSE std

\* get_terminal_size(), older copy, lines 53-59
get_terminal_size_old(e) == shutil_get_terminal_size(e)

\* enable_ansi_colors(), lines 105-117: on WSL the environment gets COLUMNS
\* and LINES from shutil
enable_ansi_colors(e) ==
    IF IS_WSL
    THEN LET sz == shutil_get_terminal_size(e) IN
         [e EXCEPT !.COLUMNS = str(sz[1]), !.LINES = str(sz[2])]
    ELSE e

Envs ==
    { [system |-> sy, procver |-> pv, COLUMNS |-> ep[1], LINES |-> ep[2],
       stty |-> st, os |-> o] :
        sy \in Systems, pv \in ProcVersions, ep \in EnvPairs,
        st \in SttyAnswers, o \in OsAnswers }

Undetected == "undetected"

\* import of terminal_utils: IS_WINDOWS, IS_WSL, IS_UNIX are set
Detect ==
    /\ platform = Undetected
    /\ platform' = Classify(env.system, env.procver)
    /\ UNCHANGED <<game, tty0, fault, typed, ioerr, obj, env, size, out, kb2,
                   tty, nonblock, old_settings, input_mode, pc,
                   alt, hidden, exc, stdin, events, last, restores, workers>>

\* enable_ansi_colors() at the head of main()
EnableAnsiColors ==
    /\ platform # Undetected
    /\ game \in KbGames
    /\ env' = enable_ansi_colors(env)
    /\ UNCHANGED <<game, platform, tty0, fault, typed, ioerr, obj, size, out, kb2,
                   tty, nonblock, old_settings, input_mode, pc,
                   alt, hidden, exc, stdin, events, last, restores, workers>>

\* a call of get_terminal_size() (before or after enable_ansi_colors():
\* test_terminal() calls it first, the games' main() after)
GetSize ==
    /\ platform # Undetected
    /\ size' = IF game \in KbGames THEN get_terminal_size(env)
               ELSE get_terminal_size_old(env)
    /\ UNCHANGED <<game, platform, tty0, fault, typed, ioerr, obj, env, out, kb2,
                   tty, nonblock, old_settings, input_mode, pc,
                   alt, hidden, exc, stdin, events, last, restores, workers>>

InitEnv ==
    /\ game \in {"snake", "paint_old"}
    /\ platform = Undetected
    /\ env \in Envs
    /\ env.system = "Windows" => env.procver = "unreadable"
    /\ size = NoSize /\ out = <<>> /\ kb2 = NoHandle /\ obj = NoGame
    /\ tty0 = Cooked
    /\ nonblock = FALSE
    /\ fault = "none"
    /\ typed = <<>>
    /\ ioerr = "none"
    /\ InitCommon

NextEnv ==
    \/ Detect
    \/ EnableAnsiColors
    \/ GetSize

SpecEnv == InitEnv /\ [][NextEnv]_vars

-----------------------------------------------------------------------------
(* Vocabulary of the properties *)

Unread(s) == s.buf \o s.kern \o s.pend
IsPrefix(a, b) == Len(a) <= Len(b) /\ a = SubSeq(b, 1, Len(a))

Exited == pc.blk = "exited"
Called == last.res # "nocall"
\* main() holds a KeyboardInput
HasKb == game \in KbGames \cup OldGames
\* construction took a snapshot and switched the terminal to raw or cbreak
Acquired == HasKb /\ ~IS_WINDOWS /\ fault \notin {"tcgetattr", "setraw"}
\* the latest poll went through a byte-wise decoder (not the line-buffered fallback)
ByteDecoder == ~(game \in KbGames /\ input_mode = "simple")
\* the latest poll went through one of the POSIX byte decoders
PosixDecoder == \/ game \in KbGames /\ input_mode = "raw"
                \/ game \in OldGames /\ ~IS_WINDOWS
\* what the latest call could see: what was unread when it began, plus what
\* reached the descriptor while it ran
Seen ==
    last.before.buf \o last.before.kern
      \o SubSeq(last.before.pend, 1, Len(last.before.pend) - Len(last.after.pend))
-----------------------------------------------------------------------------
(* C1 *)

-----------------------------------------------------------------------------
(* C2 *)

\* C2: on every platform and for both copies, once the handle has put its
\* snapshot back (cleanup() or __del__ has run), or when construction took no
\* snapshot at all, the termios discipline of stdin is what it was before
\* the construction.
C2_RoundTrip ==
    (HasKb /\ pc.blk # "start" /\ (restores >= 1 \/ ~old_settings.saved))
        => tty = tty0

\* WSL: construction, then cleanup() as the very next operation on the handle
C2_Witness ==
    /\ game = "snake" /\ platform = "wsl" /\ fault = "none" /\ tty0 = Cooked
    /\ pc = At("finally", 2) /\ ~Called /\ tty = Cooked /\ restores = 1

-----------------------------------------------------------------------------
(* C3 *)

\* the step about to be taken is a call of KeyboardInput.cleanup()
CleanupCall ==
    \/ /\ pc.blk = "finally" /\ pc.i <= Len(FinallySuite(game))
       /\ FinallySuite(game)[pc.i] = "cleanup"
    \/ /\ game \in KbGames /\ pc.blk = "finally" /\ pc.i > Len(FinallySuite(game))

\* cleanup() has already been called on the handle
CleanedBefore == game = "snake" /\ pc.blk = "finally" /\ pc.i > 1

\* C3: a cleanup() call that follows an earlier cleanup(), or that follows an
\* acquisition that failed (input_mode 'simple'), changes neither the
\* terminal discipline nor the handle nor the render state.
C3_ReleaseIdempotent ==
    [][ (CleanupCall /\ (CleanedBefore \/ input_mode = "simple") /\ pc' # pc)
          => UNCHANGED <<tty, nonblock, old_settings, alt, hidden>> ]_vars

-----------------------------------------------------------------------------
(* C4 *)

\* C4: a call of a byte-wise decoder that takes the interrupt byte from the
\* stream raises KeyboardInterrupt: the byte is neither returned as a
\* character nor dropped.
C4_InterruptDelivered ==
    (Called /\ ByteDecoder /\ \E i \in 1..Len(last.unit) : last.unit[i] = "ETX")
        => last.res = RaisedKI

-----------------------------------------------------------------------------
(* C5 *)

\* C5: when the package decoder in raw mode reads the interrupt byte as its
\* input unit, get_key raises KeyboardInterrupt to the game loop instead of
\* returning a value.
C5_InterruptPropagates ==
    (Called /\ game \in KbGames /\ input_mode = "raw" /\ last.unit = <<"ETX">>)
        => last.res = RaisedKI

-----------------------------------------------------------------------------
(* C6 *)

\* C6: on every POSIX class, a get_key call that finds an arrow sequence
\* (ESC [ x or ESC O x, x in A..D) readable on the descriptor returns the
\* matching arrow and takes exactly those three bytes; what follows them
\* stays unread.
C6_ArrowConsumed ==
    LET b == last.before IN
    ( /\ Called /\ PosixDecoder /\ ~Failing
      /\ b.buf = <<>> /\ Len(b.kern) >= 3
      /\ b.kern[1] = "ESC" /\ b.kern[2] \in {"[", "O"} /\ b.kern[3] \in ArrowFinals )
    => /\ last.res = ArrowOf(b.kern[3])
       /\ last.unit = SubSeq(b.kern, 1, 3)
       /\ Unread(last.after) = SubSeq(Unread(b), 4, Len(Unread(b)))

-----------------------------------------------------------------------------
(* C7 *)

\* C7: a byte-wise get_key call for which a lone ESC is all the unread input
\* there is (nothing else buffered, nothing arriving while it runs) returns
\* the ESC character: not an arrow, not None.
C7_LoneEscape ==
    (Called /\ ByteDecoder /\ ~Failing /\ Seen = <<"ESC">>) => last.res = "ESC"

-----------------------------------------------------------------------------
(* C8 *)

Scenario8 == <<"a", "ESC", "[", "A", "q">>
Expected8 == <<"a", "UP", "q">>

\* C8: with 'a', ESC, '[', 'A', 'q' typed, the POSIX decoders return exactly
\* Char('a'), Arrow(Up), Char('q'): what has been returned is always a prefix
\* of that sequence, and all of it once every byte has been taken.
C8_EndToEnd ==
    (typed = Scenario8 /\ PosixDecoder /\ ~Failing)
        => /\ IsPrefix(events, Expected8)
           /\ Unread(stdin) = <<>> => events = Expected8

-----------------------------------------------------------------------------
(* C9 *)

\* C9: no get_key call waits without bound: main() is never parked inside a
\* read, and a call that could see no input at all has returned None.
C9_PollTerminates ==
    /\ pc.blk # "getch"
    /\ (Called /\ ~Failing /\ Seen = <<>>) => last.res = None

-----------------------------------------------------------------------------
(* C10 *)

-----------------------------------------------------------------------------
(* C11 *)

\* C11: a process never holds two unreleased raw-mode handles at once, so
\* the settings a second handle saved as its prior settings are the
\* settings the terminal had before any handle switched it.
C11_SingleHandle ==
    LET Raw1 == old_settings.saved /\ input_mode = "raw"
        Raw2 == kb2.live /\ kb2.old_settings.saved /\ kb2.input_mode = "raw"
    IN  /\ ~(Raw1 /\ Raw2)
        /\ Raw2 => kb2.old_settings.mode = tty0

-----------------------------------------------------------------------------
(* C12 *)

\* a call the constructor makes raised
AcquisitionFailed ==
    /\ HasKb /\ ~IS_WINDOWS /\ pc.blk # "start"
    /\ \/ fault \in {"tcgetattr", "setraw"}
       \/ fault = "fcntl" /\ game \in KbGames /\ ~IS_WSL

\* C12: when a call of the raw-mode acquisition raises, the constructor does
\* not raise: main() goes on with the handle, and the package handle is in
\* the line-buffered 'simple' mode.
C12_FallsBack ==
    AcquisitionFailed =>
        /\ pc.blk # "unwind"
        /\ game \in KbGames => input_mode = "simple"

-----------------------------------------------------------------------------
(* C13 *)

\* the clear sequence of the degraded class: cursor home, erase to the end
ClearedAt(i) ==
    /\ i >= 3
    /\ <<out[i - 2], out[i - 1]>> \in {<<"ESC[H", "ESC[J">>, <<"ESC[2J", "ESC[H">>}

\* C13: on the degraded (WSL) class every frame written to the terminal,
\* the first and every later one, is directly preceded by a clear sequence.
C13_ClearBeforeEveryFrame ==
    IS_WSL => \A i \in 1..Len(out) : IsFrame(out[i]) => ClearedAt(i)

\* two consecutive frames drawn through render_frame_wsl on WSL
C13_Witness ==
    /\ IS_WSL /\ game = "snake" /\ FramesDrawn = 2
    /\ out = <<"ESC[H", "ESC[J", "f1", "ESC[H", "ESC[J", "f2">>

-----------------------------------------------------------------------------
(* C14 *)

\* every size query of the host answers (0, 0) or gives no answer, and at
\* least one answers (0, 0)
ZeroAnswers ==
    LET envZero  == env.COLUMNS = "0" /\ env.LINES = "0"
        sttyZero == env.stty = [rc |-> 0, lines |-> "0", cols |-> "0"]
        osZero   == env.os = [ok |-> TRUE, columns |-> 0, lines |-> 0]
    IN  /\ envZero \/ (env.COLUMNS = "unset" /\ env.LINES = "unset")
        /\ sttyZero \/ env.stty.rc # 0
        /\ osZero \/ ~env.os.ok
        /\ envZero \/ sttyZero \/ osZero

\* C14: when the size queries answer (0, 0), through the environment, stty
\* or shutil, get_terminal_size returns the default (80, 24).
C14_ZeroFallsBack ==
    (size # NoSize /\ ZeroAnswers) => size = <<DefaultCols, DefaultRows>>

-----------------------------------------------------------------------------
(* C15 *)

\* C15: whatever the underlying queries answer, get_terminal_size returns
\* columns within 40..200 and rows within 20..60.
C15_SizeInBand ==
    size # NoSize => (size[1] \in 40..200 /\ size[2] \in 20..60)

-----------------------------------------------------------------------------
(* C16 *)

\* C16: an environment whose class cannot be confirmed (not Windows, and
\* /proc/version cannot be read) is classified as the degraded POSIX class.
C16_UnknownIsDegraded ==
    (platform # Undetected /\ env.system # "Windows" /\ env.procver = "unreadable")
        => platform = "wsl"

-----------------------------------------------------------------------------
(* C17 *)

\* number of typed bytes that are no longer unread in s
Consumed(s) == Len(typed) - Len(Unread(s))
\* the stretch of the typed stream the latest call took, in typing order
Chunk == SubSeq(typed, Consumed(last.before) + 1, Consumed(last.after))
IsSuffix(a, b) == Len(a) <= Len(b) /\ a = SubSeq(b, Len(b) - Len(a) + 1, Len(b))
\* the latest call returned a key
ReturnedKey == Called /\ last.res \notin {None, RaisedKI, RaisedErr}
\* res is the reading of the keystroke at the head of unit
FromUnit(res, unit) ==
    /\ unit # <<>>
    /\ IF res \in Arrows
       THEN \/ Len(unit) = 3 /\ unit[1] = "ESC" /\ unit[3] \in ArrowFinals
                /\ ArrowOf(unit[3]) = res
            \/ Len(unit) = 2 /\ unit[1] \in WinPrefix /\ WinArrowOf(unit[2]) = res
            \/ MapLine(SubSeq(unit, 1, Len(unit) - 1)) = res
       ELSE \/ res = Decode(unit[1])
            \/ res = Enter /\ unit[1] \in {"CR", "LF"}

\* C17: every key get_key returns is the reading of keystrokes that come,
\* in the typed stream, after everything earlier calls took: the bytes of
\* a call are the next bytes of the stream in typing order, also when they
\* arrive during the escape look-ahead, so events are never reordered.
C17_InOrder ==
    ReturnedKey => (IsSuffix(last.unit, Chunk) /\ FromUnit(last.res, last.unit))

\* ESC alone at the start of the call, '[' and 'A' arriving during the
\* look-ahead, then 'q': the events are UP, q
C17_Witness ==
    /\ typed = <<"ESC", "[", "A", "q">> /\ game = "snake" /\ IS_WSL
    /\ input_mode = "raw" /\ events = <<"UP", "q">>
    /\ last.res = "q" /\ Chunk = <<"q">>

-----------------------------------------------------------------------------
(* C18 *)

\* C18: no exception other than KeyboardInterrupt leaves the package
\* get_key: when a console or stdin call raises inside a platform decoder,
\* the call returns None (or a key) to the game.
C18_ResolvedLocally ==
    (Called /\ game \in KbGames) => (last.res # RaisedErr /\ exc # RaisedErr)

\* msvcrt.kbhit() raised in windows mode and the game got None
C18_Witness ==
    /\ Failing /\ game = "snake" /\ IS_WINDOWS /\ input_mode = "windows"
    /\ Called /\ last.res = None /\ exc = "none" /\ pc.blk = "loop"

-----------------------------------------------------------------------------
(* C19 *)

\* C19: the render state is changed only after the raw-mode acquisition,
\* and on shutdown the cursor is shown and the alternate screen left before
\* the saved terminal settings are put back.
C19_ShutdownOrder ==
    [][ /\ (alt' # alt \/ hidden' # hidden) => pc.blk # "start"
        /\ (restores' > restores) => (~alt /\ ~hidden) ]_vars

-----------------------------------------------------------------------------
(* C20 *)

\* C20: after an escape prefix that no arrow sequence continues, the first
\* key returned is ESC, and the key typed behind the malformed sequence is
\* still returned: once all input is taken, the last event is that key.
C20_GlitchAbsorbed ==
    (typed \in GlitchStreams /\ PosixDecoder /\ ~Failing) =>
        /\ events # <<>> => events[1] = "ESC"
        /\ Unread(stdin) = <<>> => (events # <<>> /\ events[Len(events)] = "q")
-----------------------------------------------------------------------------
(* C21 *)

\* the package handle is in raw mode and has not been released
HoldsRaw == game \in KbGames /\ input_mode = "raw" /\ old_settings.saved

\* what the branch of _get_key_unix_raw for this class does with the input
\* as it stands, before the enclosing except
RawBranch == IF IS_WSL THEN WslBranch(stdin, workers) ELSE StdBranch(stdin, workers)

\* C21: while the package handle holds the terminal in raw mode, signal
\* generation (ISIG) is off on the full-capability POSIX class and is what
\* it was before on the degraded (WSL) class, with echo and line buffering
\* off in both; and in both classes the decoder branch, reading the
\* interrupt byte as its input unit, raises KeyboardInterrupt at its
\* explicit test.
C21_DisciplineByClass ==
    HoldsRaw =>
        /\ ~IS_WSL => tty = setraw(tty0)
        /\ IS_WSL => (tty = setcbreak(tty0) /\ ("ISIG" \in tty <=> "ISIG" \in tty0))
        /\ ~IS_WSL => "ISIG" \notin tty
        /\ \A o \in RawBranch : o.unit = <<"ETX">> => o.res = RaisedKI

\* WSL, started from a cooked terminal: cbreak with ISIG still set, and the
\* interrupt byte readable
C21_Witness ==
    /\ HoldsRaw /\ IS_WSL /\ tty0 = Cooked /\ tty = {"ISIG"}
    /\ pc.blk = "loop" /\ stdin.buf = <<>> /\ stdin.kern = <<"ETX">>
-----------------------------------------------------------------------------
(* C22 *)

\* main() has run enable_alternate_screen() and not yet its finally suite
Entered == game = "snake" /\ pc.blk = "loop"

\* C22: after enable_alternate_screen() the separate screen buffer is
\* active on the full-capability POSIX class and on the native (Windows)
\* console, and only on the degraded (WSL) class it is not; once
\* disable_alternate_screen() has run the original buffer is back.
C22_AltScreenByClass ==
    /\ Entered => (alt <=> ~IS_WSL)
    /\ (game = "snake" /\ pc.blk = "finally" /\ pc.i > Len(FinallySuite(game))) => ~alt
-----------------------------------------------------------------------------
(* C23 *)

\* C23: a call of a byte-wise decoder of KeyboardInput (degraded branch,
\* standard branch, older POSIX copy, native console) whose input unit begins with a
\* carriage return or a line feed returns Enter, the normalised newline,
\* also when the byte was read in a burst with other bytes.
C23_NewlineIsEnter ==
    ( /\ Called /\ HasKb /\ ByteDecoder /\ ~Failing
      /\ last.unit # <<>> /\ last.unit[1] \in {"CR", "LF"} )
    => last.res = Enter
-----------------------------------------------------------------------------
(* C24 *)

\* the line the worker of the latest call read, without its newline
LineRead == SubSeq(last.unit, 1, Len(last.unit) - 1)

\* the arrow a direction letter stands for
DirectionOf(c) ==
    CASE c = "w" -> "UP" [] c = "s" -> "DOWN" [] c = "a" -> "LEFT" [] c = "d" -> "RIGHT"

\* C24: a call of the line-buffered fallback decoder returns None when its
\* worker read no line within the wait or read an empty line, the arrow of
\* the line's first character when that is one of w/s/a/d in either case,
\* and the line's first character otherwise.
C24_LineMapped ==
    (Called /\ game \in KbGames /\ input_mode = "simple" /\ ~Failing) =>
        IF last.unit = <<>> \/ LineRead = <<>> THEN last.res = None
        ELSE IF Lower(LineRead[1]) \in {"w", "s", "a", "d"}
             THEN last.res = DirectionOf(Lower(LineRead[1]))
             ELSE last.res = LineRead[1]
-----------------------------------------------------------------------------
(* C25 *)

\* C25: in the fallback decoder a worker whose join timed out never
\* supplies the result of a call (a key a call returns is the mapping of
\* the line that call's own worker read), and at most one worker blocked
\* in the line read is outstanding at any time.
C25_OneWorkerOutstanding ==
    /\ workers <= 1
    /\ (Called /\ game \in KbGames /\ input_mode = "simple" /\ ~Failing
          /\ last.res # None) => last.res = MapLine(LineRead)
-----------------------------------------------------------------------------
(* C26 *)

\* what erases the screen: cls, erase-to-end and erase-all
ClearTokens == {"cls", "ESC[J", "ESC[2J"}

\* C26: on the full-capability POSIX class and the native console every
\* frame written is directly preceded by the move of the cursor to the
\* top-left origin, and nothing that clears the screen is ever written.
C26_RepositionWithoutClear ==
    ~IS_WSL =>
        /\ \A i \in 1..Len(out) : IsFrame(out[i]) => (i >= 2 /\ out[i - 1] = "ESC[1;1H")
        /\ \A i \in 1..Len(out) : out[i] \notin ClearTokens
-----------------------------------------------------------------------------
(* C27 *)

\* the module has been imported: the three flags exist
Imported == platform # Undetected

\* how many of the given conditions hold
HowMany(conds) == Cardinality({i \in 1..Len(conds) : conds[i]})

\* C27 as stated: once set at import the flags never change, and exactly
\* one of IS_WINDOWS, IS_WSL, IS_UNIX holds in every state.
C27_ExactlyOneFlag ==
    /\ [][Imported => platform' = platform]_vars
    /\ [](Imported => HowMany(<<IS_WINDOWS, IS_WSL, IS_UNIX>>) = 1)

\* C27, amended: once set at import the flags never change, and exactly one
\* of the three classes holds in every state, the classes being IS_WINDOWS,
\* IS_WSL, and IS_UNIX without IS_WSL (the flag IS_UNIX is set on WSL too).
C27_ExactlyOneClass ==
    /\ [][Imported => platform' = platform]_vars
    /\ [](Imported => HowMany(<<IS_WINDOWS, IS_WSL, IS_UNIX /\ ~IS_WSL>>) = 1)
    /\ [](Imported => (IS_WSL => IS_UNIX))

\* a WSL host after the import, with enable_ansi_colors() and
\* get_terminal_size() having run since
C27_Witness ==
    /\ Imported /\ IS_WSL /\ IS_UNIX /\ ~IS_WINDOWS
    /\ env.COLUMNS # "unset" /\ size # NoSize
-----------------------------------------------------------------------------
(* C28 *)

\* the latest call went through a native-console decoder of KeyboardInput
ConsoleDecoder == HasKb /\ IS_WINDOWS

\* C28: on the native console a get_key call with no keystroke pending
\* returns None at once; with a special-key prefix pending it takes the
\* prefix and the code behind it and returns the arrow for H, P, K, M and
\* None for any other code; with any other byte pending it takes that byte
\* and returns it as the character.
C28_ConsoleDecoding ==
    LET q == last.before.kern IN
    (Called /\ ConsoleDecoder /\ ~Failing) =>
        IF q = <<>>
        THEN last.res = None /\ last.after = last.before
        ELSE IF q[1] \in WinPrefix
        THEN /\ Len(last.unit) = 2 /\ last.unit[1] = q[1]
             /\ last.res = ( CASE last.unit[2] = "H" -> "UP"
                               [] last.unit[2] = "P" -> "DOWN"
                               [] last.unit[2] = "K" -> "LEFT"
                               [] last.unit[2] = "M" -> "RIGHT"
                               [] OTHER -> None )
             /\ Len(Unread(last.after)) = Len(Unread(last.before)) - 2
        ELSE /\ last.unit = <<q[1]>>
             /\ last.res = q[1]
             /\ Len(Unread(last.after)) = Len(Unread(last.before)) - 1
-----------------------------------------------------------------------------
(* C29 *)

\* KeyboardInput.__init__ of the package has returned on a POSIX class and
\* main() has not reached its finally suite
Constructed == game \in KbGames /\ ~IS_WINDOWS /\ pc.blk \in {"try", "loop"}

\* C29: after the constructor has returned, input_mode 'raw' goes with the
\* switched discipline and input_mode 'simple' with the discipline the
\* terminal had before the construction.
C29_ModeMatchesDiscipline ==
    Constructed =>
        /\ input_mode \in {"raw", "simple"}
        /\ input_mode = "raw" => tty = (IF IS_WSL THEN setcbreak(tty0) ELSE setraw(tty0))
        /\ input_mode = "simple" => tty = tty0
-----------------------------------------------------------------------------
(* C30 *)

\* bytes that are plain characters to every decoder and do not end the loop
OrdinaryBytes == {"a", "[", "O", "A"}

\* C30: in the standard POSIX raw branch, when only plain characters are
\* typed, the keys returned are those characters in order, one per call:
\* always a prefix of what was typed, and all of it once nothing is unread.
C30_NoKeystrokeLost ==
    ( /\ game \in KbGames /\ platform = "posix" /\ input_mode = "raw" /\ ~Failing
      /\ \A i \in 1..Len(typed) : typed[i] \in OrdinaryBytes )
    => /\ IsPrefix(events, typed)
       /\ Unread(stdin) = <<>> => events = typed
-----------------------------------------------------------------------------
(* C31 *)

\* the user enters exactly one non-empty line in this run
OneLineTyped == typed \in LineStreams /\ Len(typed) >= 2

\* C31: in the fallback decoder one entered line, whatever number of
\* timed-out polls came before it, is delivered: once the line has been
\* taken from the stream, a get_key call has returned the key mapped from it.
C31_LineDelivered ==
    ( /\ game \in KbGames /\ input_mode = "simple" /\ ~Failing /\ OneLineTyped
      /\ Unread(stdin) = <<>> )
    => events = <<MapLine(SubSeq(typed, 1, Len(typed) - 1))>>
-----------------------------------------------------------------------------
(* C32 *)

\* the package constructor took a snapshot of the terminal settings
SnapshotTaken ==
    game \in KbGames /\ ~IS_WINDOWS /\ fault # "tcgetattr" /\ pc.blk # "start"

\* the step about to be taken is the kb.cleanup() of the finally suite
ExplicitCleanup ==
    /\ pc.blk = "finally" /\ pc.i <= Len(FinallySuite(game))
    /\ FinallySuite(game)[pc.i] = "cleanup"

\* C32: the handle is marked released (old_settings None) exactly when a
\* restore call has succeeded; a cleanup() on a handle that holds a
\* snapshot makes the restore call, and when that call fails nothing is
\* raised, main() goes on, and the snapshot and the terminal stay as they
\* were, so that the next cleanup() or __del__ makes the call again.
C32_ReleasedAfterRestore ==
    /\ [](SnapshotTaken => (old_settings.saved <=> restores = 0))
    /\ [][ (ExplicitCleanup /\ SnapshotTaken /\ old_settings.saved /\ pc' # pc)
             => /\ exc' = exc /\ pc' = At("finally", pc.i + 1)
                /\ \/ /\ restores' = restores + 1 /\ tty' = old_settings.mode
                      /\ ~old_settings'.saved
                   \/ /\ fault = "tcsetattr"
                      /\ UNCHANGED <<restores, tty, old_settings>> ]_vars

\* snake.py: kb.cleanup() of the finally suite has run, the restore call
\* failed, and the handle still holds its snapshot with the terminal raw
C32_Witness ==
    /\ game = "snake" /\ platform = "posix" /\ fault = "tcsetattr" /\ tty0 = Cooked
    /\ pc = At("finally", 2) /\ exc = "none"
    /\ old_settings = Snapshot(Cooked) /\ tty = setraw(Cooked) /\ restores = 0
-----------------------------------------------------------------------------
(* C33 *)

\* the package handle was acquired on the full-capability POSIX class
AcquiredPosix ==
    game \in KbGames /\ platform = "posix" /\ input_mode = "raw"

\* C33: O_NONBLOCK is set while a handle acquired on the full-capability
\* POSIX class is held and is clear once that handle has been cleaned up;
\* on every other class, and when the acquisition failed (input_mode
\* 'simple'), neither the constructor nor cleanup() changes the flag.
C33_NonblockFrame ==
    /\ [](AcquiredPosix /\ old_settings.saved /\ pc.blk \in {"try", "loop"} => nonblock)
    /\ [](AcquiredPosix /\ restores >= 1 => ~nonblock)
    /\ [][ (game \in KbGames /\ ~(platform = "posix" /\ input_mode' = "raw"))
             => nonblock' = nonblock ]_vars
-----------------------------------------------------------------------------
(* C34 *)

\* the bytes of one keystroke: a plain byte, CR, LF, the interrupt byte, a
\* lone ESC, or an arrow sequence in either encoding
SingleKeystrokes ==
    { <<b>> : b \in PlainBytes }
      \cup { <<"ESC", i, f>> : i \in {"[", "O"}, f \in ArrowFinals }

\* what each of the three POSIX decoders hands to its caller for the input s
PosixOutcomes(s) ==
    << { o.res : o \in _get_key_unix(s, 0) },
       { Swallow(o).res : o \in StdBranch(s, 0) },
       { Swallow(o).res : o \in WslBranch(s, 0) } >>

\* C34: when a POSIX decoder is called with exactly the bytes of one
\* keystroke readable and nothing else to come, the older copy's decoder,
\* the standard branch and the degraded branch would all hand the caller
\* what this call returned.
C34_DecodersAgree ==
    ( /\ Called /\ PosixDecoder /\ ~Failing
      /\ last.before.buf = <<>> /\ last.before.pend = <<>>
      /\ last.before.kern \in SingleKeystrokes )
    => \A d \in 1..3 : PosixOutcomes(last.before)[d] = {last.res}
-----------------------------------------------------------------------------
(* The snake game: terminal_toys/snake.py *)

\* everything but the game object
rest == <<game, platform, tty0, tty, nonblock, old_settings, input_mode, alt,
          hidden, pc, exc, stdin, events, last, restores, workers, fault, typed,
          ioerr, env, size, out, kb2>>

NoDir == <<0, 0>>
Range(s) == { s[i] : i \in 1..Len(s) }

\* cells inside the walls that the snake does not cover (spawn_food, 36-42)
FreeCells(body) ==
    { <<x, y>> : x \in 1..(BoardWidth - 2), y \in 1..(BoardHeight - 2) } \ Range(body)

\* Snake.__init__, lines 26-34, with the food spawn_food() drew.  speed only
\* sets when main() calls move() and is left out; moved and moves record
\* the direction the latest move() used and how many move() calls there were
Snake(food) ==
    [kind |-> "snake",
     snake |-> << <<BoardWidth \div 2, BoardHeight \div 2>> >>,
     direction |-> <<1, 0>>, food |-> food, score |-> 0, game_over |-> FALSE,
     moved |-> NoDir, moves |-> 0]

\* Snake.change_direction, lines 72-75
change_direction(g, dx, dy) ==
    IF <<dx, dy>> # <<-g.direction[1], -g.direction[2]>>
    THEN [g EXCEPT !.direction = <<dx, dy>>]
    ELSE g

\* Snake.move, lines 44-70; food2 is what spawn_food() draws when the food
\* is eaten
move(g, food2) ==
    LET head     == g.snake[1]
        new_head == <<head[1] + g.direction[1], head[2] + g.direction[2]>>
        used     == [g EXCEPT !.moved = g.direction, !.moves = g.moves + 1]
    IN  IF \/ new_head[1] <= 0 \/ new_head[1] >= BoardWidth - 1
           \/ new_head[2] <= 0 \/ new_head[2] >= BoardHeight - 1
        THEN [used EXCEPT !.game_over = TRUE]
        ELSE IF new_head \in Range(g.snake)
        THEN [used EXCEPT !.game_over = TRUE]
        ELSE IF new_head = g.food
        THEN [used EXCEPT !.snake = <<new_head>> \o g.snake,
                          !.score = g.score + 10, !.food = food2]
        ELSE [used EXCEPT !.snake = <<new_head>> \o SubSeq(g.snake, 1, Len(g.snake) - 1)]

\* keys main() may get from kb.get_key(0.01); "x" is a key it ignores
SnakeKeys == {"UP", "DOWN", "LEFT", "RIGHT", "w", "S", "a", "D", "x"}

\* main(), lines 192-202: the key dispatch ('q' ends the loop and is left out)
HandleSnakeKey(g, key) ==
    IF key \in {"UP", "w", "W"} THEN change_direction(g, 0, -1)
    ELSE IF key \in {"DOWN", "s", "S"} THEN change_direction(g, 0, 1)
    ELSE IF key \in {"LEFT", "a", "A"} THEN change_direction(g, -1, 0)
    ELSE IF key \in {"RIGHT", "d", "D"} THEN change_direction(g, 1, 0)
    ELSE g

\* one loop iteration in which a key was read (lines 191-202)
SnakeKey ==
    /\ obj.kind = "snake" /\ ~obj.game_over
    /\ \E key \in SnakeKeys : obj' = HandleSnakeKey(obj, key)
    /\ UNCHANGED rest

\* one loop iteration in which the move interval has passed (lines 205-209)
SnakeMove ==
    /\ obj.kind = "snake" /\ ~obj.game_over
    /\ obj.moves < MaxMoves
    /\ \E food2 \in FreeCells(obj.snake) \ {obj.food} : obj' = move(obj, food2)
    /\ UNCHANGED rest

InitSnake ==
    /\ game = "snake"
    /\ platform = "posix"
    /\ tty0 = Cooked
    /\ nonblock = FALSE
    /\ fault = "none"
    /\ typed = <<>>
    /\ ioerr = "none"
    /\ env = NoEnv /\ size = NoSize /\ out = <<>> /\ kb2 = NoHandle
    /\ \E food \in FreeCells(Snake(<<0, 0>>).snake) : obj = Snake(food)
    /\ InitCommon

NextSnake ==
    \/ SnakeKey
    \/ SnakeMove

SpecSnake == InitSnake /\ [][NextSnake]_vars

-----------------------------------------------------------------------------
(* C35 *)

\* the step is a move() call
IsMove == obj'.moves = obj.moves + 1

\* C35: the direction a move() uses is never the exact opposite of the
\* direction the previous move() used, whatever keys were handled between
\* the two, and a snake of length 2 or more never moves its head onto its
\* neck.
C35_NeverReverses ==
    [][ IsMove =>
          /\ obj.moved # NoDir => obj'.moved # <<-obj.moved[1], -obj.moved[2]>>
          /\ Len(obj.snake) >= 2 =>
                <<obj.snake[1][1] + obj.direction[1],
                  obj.snake[1][2] + obj.direction[2]>> # obj.snake[2] ]_vars
-----------------------------------------------------------------------------
(* The Tetris game: terminal_toys/tetris.py *)

\* PIECES, lines 19-27: rows of cells, top row first
PIECES(type) ==
    CASE type = "I" -> << <<1, 1, 1, 1>> >>
      [] type = "O" -> << <<1, 1>>, <<1, 1>> >>
      [] type = "T" -> << <<0, 1, 0>>, <<1, 1, 1>> >>
      [] type = "S" -> << <<0, 1, 1>>, <<1, 1, 0>> >>
      [] type = "Z" -> << <<1, 1, 0>>, <<0, 1, 1>> >>
      [] type = "J" -> << <<1, 0, 0>>, <<1, 1, 1>> >>
      [] type = "L" -> << <<0, 0, 1>>, <<1, 1, 1>> >>

\* the types random.choice draws in the runs explored
TetrisTypes == {"O", "I"}

\* a row of the board: TRUE where a block lies
EmptyRow == [x \in 1..TetrisWidth |-> FALSE]
EmptyBoard == [y \in 1..TetrisHeight |-> EmptyRow]

\* Tetris.rotate_piece, lines 72-74: zip(*piece[::-1])
rotate_piece(piece) ==
    [i \in 1..Len(piece[1]) |-> [j \in 1..Len(piece) |-> piece[Len(piece) + 1 - j][i]]]

\* Tetris.is_valid_position, lines 95-118; x and y count from 0 as in the source
is_valid_position(g, piece, x, y) ==
    \A r \in 1..Len(piece) : \A c \in 1..Len(piece[r]) :
        piece[r][c] = 1 =>
            LET new_x == x + c - 1
                new_y == y + r - 1
            IN  /\ ~(new_x < 0 \/ new_x >= TetrisWidth \/ new_y >= TetrisHeight)
                /\ ~(new_y >= 0 /\ g.board[new_y + 1][new_x + 1])

\* Tetris.new_piece, lines 76-93; first and nt are the types random.choice
\* draws (first only when there is no next piece yet)
new_piece(g, first, nt) ==
    LET type  == IF g.next_type = "none" THEN first ELSE g.next_type
        piece == PIECES(type)
        g1    == [g EXCEPT !.current_piece = piece, !.current_type = type,
                           !.current_x = (TetrisWidth \div 2) - (Len(piece[1]) \div 2),
                           !.current_y = 0, !.current_rotation = 0,
                           !.next_type = nt, !.spawned = g.spawned + 1]
    IN  IF ~is_valid_position(g1, g1.current_piece, g1.current_x, g1.current_y)
        THEN [g1 EXCEPT !.game_over = TRUE]
        ELSE g1

\* Tetris.__init__, lines 45-70.  board_colors repeats board for the
\* display and fall_time / fall_speed only set when update() drops; they
\* are left out.  spawned counts the new_piece() calls of this game
Tetris(first, nt) ==
    new_piece([kind |-> "tetris", board |-> EmptyBoard,
               current_piece |-> <<>>, current_type |-> "none",
               current_x |-> 0, current_y |-> 0, current_rotation |-> 0,
               next_type |-> "none",
               score |-> 0, lines |-> 0, level |-> 1,
               game_over |-> FALSE, paused |-> FALSE, spawned |-> 0],
              first, nt)

\* the score table of line 156
LineScore(n) == CASE n = 1 -> 40 [] n = 2 -> 100 [] n = 3 -> 300 [] OTHER -> 1200

\* Tetris.check_lines, lines 137-158: full rows go, empty rows come in on top
check_lines(g) ==
    LET IsFull(row) == \A x \in 1..TetrisWidth : row[x]
        NotFull(row) == ~IsFull(row)
        kept == SelectSeq(g.board, NotFull)
        lines_cleared == TetrisHeight - Len(kept)
        board == [y \in 1..TetrisHeight |->
                    IF y <= lines_cleared THEN EmptyRow ELSE kept[y - lines_cleared]]
    IN  IF lines_cleared > 0
        THEN [g EXCEPT !.board = board,
                       !.lines = g.lines + lines_cleared,
                       !.score = g.score + LineScore(lines_cleared) * g.level,
                       !.level = 1 + ((g.lines + lines_cleared) \div 10)]
        ELSE g

\* Tetris.place_piece, lines 120-135
place_piece(g, nt) ==
    LET Covered(x, y) ==
            \E r \in 1..Len(g.current_piece) : \E c \in 1..Len(g.current_piece[r]) :
                /\ g.current_piece[r][c] = 1
                /\ y = g.current_y + r - 1 /\ x = g.current_x + c - 1
        placed == [g EXCEPT !.board =
                     [y \in 1..TetrisHeight |-> [x \in 1..TetrisWidth |->
                         g.board[y][x] \/ Covered(x - 1, y - 1)]]]
    IN  new_piece(check_lines(placed), nt, nt)

\* Tetris.move, lines 160-165 (called tetris_move: move is the snake's)
tetris_move(g, dx) ==
    IF is_valid_position(g, g.current_piece, g.current_x + dx, g.current_y)
    THEN [g EXCEPT !.current_x = g.current_x + dx]
    ELSE g

\* Tetris.rotate, lines 167-174
rotate(g) ==
    LET rotated == rotate_piece(g.current_piece) IN
    IF is_valid_position(g, rotated, g.current_x, g.current_y)
    THEN [g EXCEPT !.current_piece = rotated,
                   !.current_rotation = (g.current_rotation + 1) % 4]
    ELSE g

\* Tetris.drop, lines 176-183
drop(g, nt) ==
    IF is_valid_position(g, g.current_piece, g.current_x, g.current_y + 1)
    THEN [g EXCEPT !.current_y = g.current_y + 1]
    ELSE place_piece(g, nt)

\* Tetris.hard_drop, lines 185-189
RECURSIVE hard_drop(_, _)
hard_drop(g, nt) ==
    IF is_valid_position(g, g.current_piece, g.current_x, g.current_y + 1)
    THEN hard_drop([g EXCEPT !.current_y = g.current_y + 1], nt)
    ELSE place_piece(g, nt)

\* Tetris.update, lines 191-199; due says fall_time has reached fall_speed
update(g, due, nt) ==
    IF g.game_over \/ g.paused THEN g
    ELSE IF due THEN drop(g, nt) ELSE g

\* what kb.get_key(0.01) may hand main(); "x" is a key it ignores
TetrisKeys == {None, "p", "r", "R", "LEFT", "RIGHT", "UP", "DOWN", " ", "x"}

\* main(), lines 311-328: the key dispatch ('q' ends the loop and is left
\* out).  Line 316 reads  key == 'r' or key == 'R' and game.game_over,
\* in which `and` binds tighter than `or`
HandleTetrisKey(g, key, first, nt) ==
    IF key = None THEN g
    ELSE IF key \in {"p", "P"} THEN [g EXCEPT !.paused = ~g.paused]
    ELSE IF key = "r" \/ (key = "R" /\ g.game_over) THEN Tetris(first, nt)
    ELSE IF ~g.game_over /\ ~g.paused
    THEN CASE key = "LEFT" -> tetris_move(g, -1)
           [] key = "RIGHT" -> tetris_move(g, 1)
           [] key = "UP" -> rotate(g)
           [] key = "DOWN" -> drop(g, nt)
           [] key = " " -> hard_drop(g, nt)
           [] OTHER -> g
    ELSE g

\* everything but the game object, the position of main() and the latest key
other == <<game, platform, tty0, tty, nonblock, old_settings, input_mode, alt,
           hidden, exc, stdin, events, restores, workers, fault, typed,
           ioerr, env, size, out, kb2>>

\* first half of a loop iteration, lines 310-328: read a key, act on it
TetrisKey ==
    /\ obj.kind = "tetris" /\ pc = At("loop", 0)
    /\ obj.spawned <= MaxPieces
    /\ \E key \in TetrisKeys : \E first \in TetrisTypes : \E nt \in TetrisTypes :
          /\ obj' = HandleTetrisKey(obj, key, first, nt)
          /\ last' = [last EXCEPT !.res = key, !.t = FrameMs]
    /\ pc' = At("loop", 1)
    /\ UNCHANGED other

\* second half, lines 331-336: update, draw, sleep
TetrisUpdate ==
    /\ obj.kind = "tetris" /\ pc = At("loop", 1)
    /\ \E due \in BOOLEAN : \E nt \in TetrisTypes : obj' = update(obj, due, nt)
    /\ pc' = At("loop", 0)
    /\ UNCHANGED <<other, last>>

InitTetris ==
    /\ game = "snake"
    /\ platform = "posix"
    /\ tty0 = Cooked /\ tty = setraw(Cooked)
    /\ nonblock = TRUE
    /\ old_settings = Snapshot(Cooked) /\ input_mode = "raw"
    /\ alt = TRUE /\ hidden = TRUE
    /\ pc = At("loop", 0) /\ exc = "none"
    /\ stdin = EmptyStdin(<<>>) /\ events = <<>> /\ last = NoCall
    /\ restores = 0 /\ workers = 0
    /\ fault = "none" /\ typed = <<>> /\ ioerr = "none"
    /\ env = NoEnv /\ size = NoSize /\ out = <<>> /\ kb2 = NoHandle
    /\ \E first \in TetrisTypes : \E nt \in TetrisTypes : obj = Tetris(first, nt)

NextTetris ==
    \/ TetrisKey
    \/ TetrisUpdate

SpecTetris == InitTetris /\ [][NextTetris]_vars

-----------------------------------------------------------------------------
(* C36 *)

\* the step handles the key main() just read
KeyHandled(key) == pc = At("loop", 0) /\ pc' = At("loop", 1) /\ last'.res = key

\* C36: while a game is in progress (not over), handling 'r' or 'R' leaves
\* the board, the score, the lines and the level unchanged.
C36_RestartOnlyWhenOver ==
    [][ ((KeyHandled("r") \/ KeyHandled("R")) /\ ~obj.game_over)
          => /\ obj'.board = obj.board /\ obj'.score = obj.score
             /\ obj'.lines = obj.lines /\ obj'.level = obj.level ]_vars

====
